---- MODULE Spec2Model ----
(***************************************************************************)
(* CoordinateSpace: main.cpp as a state machine.                           *)
(*                                                                         *)
(* The program is one thread: main() runs its start-up statements, then    *)
(* the render loop, then the clean-up.  pc is the position in main().      *)
(* Floats are fixed-point integers with three decimals (1.0 is 1000).      *)
(* Angles are whole degrees; an angle "in radians" is carried in units of  *)
(* pi/180, so glm::radians keeps the number and SinDeg/CosDeg take it.     *)
(* The clock counts tenths of a second.                                    *)
(***************************************************************************)
EXTENDS Integers, Sequences, FiniteSets, TLC

(* ------------------------------ bounds --------------------------------- *)
MaxFrames == 3
MaxClock == 10

(* ------------------------- program constants --------------------------- *)
SCR_WIDTH == 800
SCR_HEIGHT == 600

(* Framebuffer sizes the host can report in a resize event. *)
Sizes == {<<800, 600>>, <<600, 600>>, <<400, 800>>}

(* Clock readings: glfwGetTime in tenths of a second, in steps of 0.9 s   *)
(* (45 degrees of spin), so that 3.6 s and more than a full turn occur.   *)
ClockValues == {9 * k : k \in 0..MaxClock}

(* --------------------------- fixed point ------------------------------- *)
Fixed(n) == n * 1000
FMul(a, b) == (a * b) \div 1000
FDiv(a, b) == (a * 1000) \div b

(* sin of 0, 5, ..., 90 degrees, three decimals *)
SinTable ==
  [d \in {5 * k : k \in 0..18} |->
     CASE d = 0 -> 0      [] d = 5 -> 87     [] d = 10 -> 174
       [] d = 15 -> 259   [] d = 20 -> 342   [] d = 25 -> 423
       [] d = 30 -> 500   [] d = 35 -> 574   [] d = 40 -> 643
       [] d = 45 -> 707   [] d = 50 -> 766   [] d = 55 -> 819
       [] d = 60 -> 866   [] d = 65 -> 906   [] d = 70 -> 940
       [] d = 75 -> 966   [] d = 80 -> 985   [] d = 85 -> 996
       [] OTHER -> 1000]

SinDeg(d) ==
  LET r == d % 360 IN
    IF r <= 90 THEN SinTable[r]
    ELSE IF r <= 180 THEN SinTable[180 - r]
    ELSE IF r <= 270 THEN 0 - SinTable[r - 180]
    ELSE 0 - SinTable[360 - r]

CosDeg(d) == SinDeg(d + 90)

(* tan(d/2) = sin d / (1 + cos d) *)
TanHalfDeg(d) == FDiv(SinDeg(d), Fixed(1) + CosDeg(d))

radians(deg) == deg

(* ----------------------------- matrices -------------------------------- *)
(* glm::mat4 is column-major: m[c][r], columns and rows 1..4 here.         *)
Identity ==
  [c \in 1..4 |-> [r \in 1..4 |-> IF c = r THEN Fixed(1) ELSE 0]]

ZeroMat == [c \in 1..4 |-> [r \in 1..4 |-> 0]]

(* column * scalar *)
ColScale(col, s) == [r \in 1..4 |-> FMul(col[r], s)]
ColAdd(a, b) == [r \in 1..4 |-> a[r] + b[r]]

(* glm::rotate(m, angle, v), v a unit vector with components 0 or 1 *)
rotate(m, angle, v) ==
  LET c == CosDeg(angle)
      s == SinDeg(angle)
      axis == v
      temp == [i \in 1..3 |-> (Fixed(1) - c) * axis[i]]
      R == [i \in 1..3 |-> [j \in 1..3 |->
              CASE i = 1 /\ j = 1 -> c + temp[1] * axis[1]
                [] i = 1 /\ j = 2 -> temp[1] * axis[2] + s * axis[3]
                [] i = 1 /\ j = 3 -> temp[1] * axis[3] - s * axis[2]
                [] i = 2 /\ j = 1 -> temp[2] * axis[1] - s * axis[3]
                [] i = 2 /\ j = 2 -> c + temp[2] * axis[2]
                [] i = 2 /\ j = 3 -> temp[2] * axis[3] + s * axis[1]
                [] i = 3 /\ j = 1 -> temp[3] * axis[1] + s * axis[2]
                [] i = 3 /\ j = 2 -> temp[3] * axis[2] - s * axis[1]
                [] OTHER          -> c + temp[3] * axis[3]]]
      Col(i) == ColAdd(ColAdd(ColScale(m[1], R[i][1]),
                              ColScale(m[2], R[i][2])),
                       ColScale(m[3], R[i][3]))
  IN [k \in 1..4 |-> IF k = 4 THEN m[4] ELSE Col(k)]

(* glm::translate(m, v), v in whole units *)
translate(m, v) ==
  [k \in 1..4 |->
     IF k = 4
       THEN ColAdd(ColAdd(ColAdd(ColScale(m[1], Fixed(v[1])),
                                 ColScale(m[2], Fixed(v[2]))),
                          ColScale(m[3], Fixed(v[3]))),
                   m[4])
       ELSE m[k]]

(* glm::perspective(fovy, aspect, zNear, zFar), fovy in degrees *)
perspective(fovy, aspect, zNear, zFar) ==
  LET tanHalfFovy == TanHalfDeg(fovy) IN
  [c \in 1..4 |-> [r \in 1..4 |->
     CASE c = 1 /\ r = 1 -> FDiv(Fixed(1), FMul(aspect, tanHalfFovy))
       [] c = 2 /\ r = 2 -> FDiv(Fixed(1), tanHalfFovy)
       [] c = 3 /\ r = 3 -> 0 - FDiv(zFar + zNear, zFar - zNear)
       [] c = 3 /\ r = 4 -> 0 - Fixed(1)
       [] c = 4 /\ r = 3 -> 0 - FDiv(FMul(Fixed(2), FMul(zFar, zNear)),
                                     zFar - zNear)
       [] OTHER -> 0]]


(* ------------------------------ state ---------------------------------- *)
VARIABLES
  pc,            \* position in main()
  window,        \* result of glfwCreateWindow: "none", "NULL" or "window"
  glad,          \* gladLoadGLLoader: "untried", "ok" or "failed"
  output,        \* messages written, each with the stream it went to
  terminateCalls,\* number of glfwTerminate() calls
  exitCode,      \* <<>> while running, then <<return value of main()>>
  created,       \* GPU objects generated so far
  releases,      \* per GPU object, number of delete calls on it
  data,          \* stbi_load: "none", "pixels" or "NULL"
  texImage,      \* glTexImage2D + glGenerateMipmap done
  boundTexture,  \* GL_TEXTURE_2D binding
  boundVAO,      \* vertex array binding
  activeProgram, \* program made current by glUseProgram, "none" at start
  shouldClose,   \* the window's should-close flag
  escapeKey,     \* cached state of GLFW_KEY_ESCAPE: "RELEASE" or "PRESS"
  fbSize,        \* the host's current framebuffer size <<w, h>>
  viewport,      \* glViewport rectangle <<x, y, w, h>>
  clock,         \* last value returned by glfwGetTime (tenths of a second)
  frame,         \* number of loop iterations begun
  steps,         \* calls made so far in the current iteration, in order
  locals,        \* this iteration's trans, model, view, projection, aspect
                 \* and the clock reading (time) that trans was built from
  issued,        \* per uniform name, the value last passed to glUniform*
  issuedNames,   \* uniform names passed to glUniform* so far
  rejected,      \* uniform names passed to glUniform* with no program in use
  uniforms,      \* uniform values stored in the shader program
  stored,        \* uniform names the program has received a value for
  drawCalls      \* number of glDrawElements calls

vars == <<pc, window, glad, output, terminateCalls, exitCode, created,
          releases, data, texImage, boundTexture, boundVAO, activeProgram,
          shouldClose, escapeKey, fbSize, viewport, clock, frame, steps,
          locals, issued, issuedNames, rejected, uniforms, stored, drawCalls>>

Resources == {"VAO", "VBO", "EBO", "texture", "program"}

MatrixUniforms == {"model", "view", "projection", "transform"}

Msg(stream, text) == [stream |-> stream, text |-> text]

Init ==
  /\ pc = "start"
  /\ window = "none"
  /\ glad = "untried"
  /\ output = <<>>
  /\ terminateCalls = 0
  /\ exitCode = <<>>
  /\ created = {}
  /\ releases = [r \in Resources |-> 0]
  /\ data = "none"
  /\ texImage = FALSE
  /\ boundTexture = "none"
  /\ boundVAO = "none"
  /\ activeProgram = "none"
  /\ shouldClose = FALSE
  /\ escapeKey = "RELEASE"
  /\ fbSize = <<SCR_WIDTH, SCR_HEIGHT>>
  /\ viewport = <<0, 0, 0, 0>>
  /\ clock = 0
  /\ frame = 0
  /\ steps = <<>>
  /\ locals = [trans |-> ZeroMat, model |-> ZeroMat, view |-> ZeroMat,
               projection |-> ZeroMat, aspect |-> 0, time |-> 0]
  /\ issued = [model |-> ZeroMat, view |-> ZeroMat, projection |-> ZeroMat,
               transform |-> ZeroMat, time |-> 0]
  /\ issuedNames = {}
  /\ rejected = {}
  /\ uniforms = [model |-> ZeroMat, view |-> ZeroMat, projection |-> ZeroMat,
                 transform |-> ZeroMat, time |-> 0]
  /\ stored = {}
  /\ drawCalls = 0

(* ----------------------------- start-up -------------------------------- *)
Say(text) == output' = Append(output, Msg("stdout", text))

Step(name) == steps' = Append(steps, name)

(* glfwInit, the window hints and glfwCreateWindow *)
CreateWindow ==
  /\ pc = "start"
  /\ \E w \in {"NULL", "window"} : window' = w
  /\ pc' = "window_check"
  /\ UNCHANGED <<glad, output, terminateCalls, exitCode, created, releases,
                 data, texImage, boundTexture, boundVAO, activeProgram,
                 shouldClose, escapeKey, fbSize, viewport, clock, frame,
                 steps, locals, issued, issuedNames, rejected, uniforms,
                 stored, drawCalls>>

(* bug variant: the window failure is reported twice *)
WindowFailed_SaysTwice ==
  /\ pc = "window_check"
  /\ window = "NULL"
  /\ output' = output \o <<Msg("stdout", "Failed to create GLFW window"),
                           Msg("stdout", "Failed to create GLFW window")>>
  /\ terminateCalls' = terminateCalls + 1
  /\ exitCode' = <<0 - 1>>
  /\ pc' = "exited"
  /\ UNCHANGED <<window, glad, created, releases, data, texImage,
                 boundTexture, boundVAO, activeProgram, shouldClose,
                 escapeKey, fbSize, viewport, clock, frame, steps, locals,
                 issued, issuedNames, rejected, uniforms, stored, drawCalls>>

(* if (window == NULL): message, glfwTerminate, return -1 *)
WindowFailed ==
  /\ pc = "window_check"
  /\ window = "NULL"
  /\ Say("Failed to create GLFW window")
  /\ terminateCalls' = terminateCalls + 1
  /\ exitCode' = <<0 - 1>>
  /\ pc' = "exited"
  /\ UNCHANGED <<window, glad, created, releases, data, texImage,
                 boundTexture, boundVAO, activeProgram, shouldClose,
                 escapeKey, fbSize, viewport, clock, frame, steps, locals,
                 issued, issuedNames, rejected, uniforms, stored, drawCalls>>

(* glfwMakeContextCurrent and glfwSetFramebufferSizeCallback; a context   *)
(* made current for the first time gets the window's size as viewport.    *)
MakeContextCurrent ==
  /\ pc = "window_check"
  /\ window = "window"
  /\ viewport' = <<0, 0, fbSize[1], fbSize[2]>>
  /\ pc' = "load_glad"
  /\ UNCHANGED <<window, glad, output, terminateCalls, exitCode, created,
                 releases, data, texImage, boundTexture, boundVAO,
                 activeProgram, shouldClose, escapeKey, fbSize, clock, frame,
                 steps, locals, issued, issuedNames, rejected, uniforms,
                 stored, drawCalls>>

(* gladLoadGLLoader *)
LoadGL ==
  /\ pc = "load_glad"
  /\ \E g \in {"ok", "failed"} : glad' = g
  /\ pc' = "glad_check"
  /\ UNCHANGED <<window, output, terminateCalls, exitCode, created, releases,
                 data, texImage, boundTexture, boundVAO, activeProgram,
                 shouldClose, escapeKey, fbSize, viewport, clock, frame,
                 steps, locals, issued, issuedNames, rejected, uniforms,
                 stored, drawCalls>>

(* bug variant: the loader failure returns 0 *)
GladFailed_ReturnsZero ==
  /\ pc = "glad_check"
  /\ glad = "failed"
  /\ Say("Failed to initialize GLAD")
  /\ exitCode' = <<0>>
  /\ pc' = "exited"
  /\ UNCHANGED <<window, glad, terminateCalls, created, releases, data,
                 texImage, boundTexture, boundVAO, activeProgram, shouldClose,
                 escapeKey, fbSize, viewport, clock, frame, steps, locals,
                 issued, issuedNames, rejected, uniforms, stored, drawCalls>>

(* if (!gladLoadGLLoader(...)): message, return -1 *)
GladFailed ==
  /\ pc = "glad_check"
  /\ glad = "failed"
  /\ Say("Failed to initialize GLAD")
  /\ exitCode' = <<0 - 1>>
  /\ pc' = "exited"
  /\ UNCHANGED <<window, glad, terminateCalls, created, releases, data,
                 texImage, boundTexture, boundVAO, activeProgram, shouldClose,
                 escapeKey, fbSize, viewport, clock, frame, steps, locals,
                 issued, issuedNames, rejected, uniforms, stored, drawCalls>>

(* Shader ourShader(vs, fs): compiles and links a program; it does not    *)
(* make the program current.                                               *)
BuildShader ==
  /\ pc = "glad_check"
  /\ glad = "ok"
  /\ created' = created \cup {"program"}
  /\ pc' = "geometry"
  /\ UNCHANGED <<window, glad, output, terminateCalls, exitCode, releases,
                 data, texImage, boundTexture, boundVAO, activeProgram,
                 shouldClose, escapeKey, fbSize, viewport, clock, frame,
                 steps, locals, issued, issuedNames, rejected, uniforms,
                 stored, drawCalls>>

(* glGenVertexArrays, glGenBuffers x2, bind, glBufferData, attributes *)
SetupGeometry ==
  /\ pc = "geometry"
  /\ created' = created \cup {"VAO", "VBO", "EBO"}
  /\ boundVAO' = "VAO"
  /\ pc' = "texture"
  /\ UNCHANGED <<window, glad, output, terminateCalls, exitCode, releases,
                 data, texImage, boundTexture, activeProgram, shouldClose,
                 escapeKey, fbSize, viewport, clock, frame, steps, locals,
                 issued, issuedNames, rejected, uniforms, stored, drawCalls>>

(* glGenTextures, glBindTexture, glTexParameteri x4, stbi_load *)
LoadTexture ==
  /\ pc = "texture"
  /\ created' = created \cup {"texture"}
  /\ boundTexture' = "texture"
  /\ \E d \in {"pixels", "NULL"} : data' = d
  /\ pc' = "data_check"
  /\ UNCHANGED <<window, glad, output, terminateCalls, exitCode, releases,
                 texImage, boundVAO, activeProgram, shouldClose, escapeKey,
                 fbSize, viewport, clock, frame, steps, locals, issued,
                 issuedNames, rejected, uniforms, stored, drawCalls>>

(* if (data): glTexImage2D, glGenerateMipmap; then stbi_image_free *)
UploadTexture ==
  /\ pc = "data_check"
  /\ data = "pixels"
  /\ texImage' = TRUE
  /\ pc' = "loop"
  /\ UNCHANGED <<window, glad, output, terminateCalls, exitCode, created,
                 releases, data, boundTexture, boundVAO, activeProgram,
                 shouldClose, escapeKey, fbSize, viewport, clock, frame,
                 steps, locals, issued, issuedNames, rejected, uniforms,
                 stored, drawCalls>>

(* bug variant: a missing texture is treated as fatal *)
TextureFailed_Exits ==
  /\ pc = "data_check"
  /\ data = "NULL"
  /\ Say("Failed to load texture")
  /\ exitCode' = <<0 - 1>>
  /\ pc' = "exited"
  /\ UNCHANGED <<window, glad, terminateCalls, created, releases, data,
                 texImage, boundTexture, boundVAO, activeProgram, shouldClose,
                 escapeKey, fbSize, viewport, clock, frame, steps, locals,
                 issued, issuedNames, rejected, uniforms, stored, drawCalls>>

(* else: message; then stbi_image_free *)
TextureFailed ==
  /\ pc = "data_check"
  /\ data = "NULL"
  /\ Say("Failed to load texture")
  /\ pc' = "loop"
  /\ UNCHANGED <<window, glad, terminateCalls, exitCode, created, releases,
                 data, texImage, boundTexture, boundVAO, activeProgram,
                 shouldClose, escapeKey, fbSize, viewport, clock, frame,
                 steps, locals, issued, issuedNames, rejected, uniforms,
                 stored, drawCalls>>

(* ---------------------------- render loop ------------------------------ *)
(* bug variant: the loop condition ignores the should-close flag *)
EnterTick_IgnoresFlag ==
  /\ pc = "loop"
  /\ frame < MaxFrames
  /\ frame' = frame + 1
  /\ steps' = <<>>
  /\ pc' = "input"
  /\ UNCHANGED <<window, glad, output, terminateCalls, exitCode, created,
                 releases, data, texImage, boundTexture, boundVAO,
                 activeProgram, shouldClose, escapeKey, fbSize, viewport,
                 clock, locals, issued, issuedNames, rejected, uniforms,
                 stored, drawCalls>>

(* while (!glfwWindowShouldClose(window)): the condition holds *)
EnterTick ==
  /\ pc = "loop"
  /\ ~shouldClose
  /\ frame < MaxFrames
  /\ frame' = frame + 1
  /\ steps' = <<>>
  /\ pc' = "input"
  /\ UNCHANGED <<window, glad, output, terminateCalls, exitCode, created,
                 releases, data, texImage, boundTexture, boundVAO,
                 activeProgram, shouldClose, escapeKey, fbSize, viewport,
                 clock, locals, issued, issuedNames, rejected, uniforms,
                 stored, drawCalls>>

(* the condition fails *)
LeaveLoop ==
  /\ pc = "loop"
  /\ shouldClose
  /\ pc' = "cleanup"
  /\ UNCHANGED <<window, glad, output, terminateCalls, exitCode, created,
                 releases, data, texImage, boundTexture, boundVAO,
                 activeProgram, shouldClose, escapeKey, fbSize, viewport,
                 clock, frame, steps, locals, issued, issuedNames, rejected,
                 uniforms, stored, drawCalls>>

(* bug variant: the iteration is abandoned when the key is seen *)
processInput_Breaks ==
  /\ pc = "input"
  /\ shouldClose' = IF escapeKey = "PRESS" THEN TRUE ELSE shouldClose
  /\ Step("processInput")
  /\ pc' = IF escapeKey = "PRESS" THEN "loop" ELSE "clear"
  /\ UNCHANGED <<window, glad, output, terminateCalls, exitCode, created,
                 releases, data, texImage, boundTexture, boundVAO,
                 activeProgram, escapeKey, fbSize, viewport, clock, frame,
                 locals, issued, issuedNames, rejected, uniforms, stored,
                 drawCalls>>

(* processInput(window) *)
processInput ==
  /\ pc = "input"
  /\ shouldClose' = IF escapeKey = "PRESS" THEN TRUE ELSE shouldClose
  /\ Step("processInput")
  /\ pc' = "clear"
  /\ UNCHANGED <<window, glad, output, terminateCalls, exitCode, created,
                 releases, data, texImage, boundTexture, boundVAO,
                 activeProgram, escapeKey, fbSize, viewport, clock, frame,
                 locals, issued, issuedNames, rejected, uniforms, stored,
                 drawCalls>>

(* bug variant: the texture bind is skipped *)
Clear_SkipsBind ==
  /\ pc = "clear"
  /\ Step("glClear")
  /\ pc' = "matrices"
  /\ UNCHANGED <<window, glad, output, terminateCalls, exitCode, created,
                 releases, data, texImage, boundTexture, boundVAO,
                 activeProgram, shouldClose, escapeKey, fbSize, viewport,
                 clock, frame, locals, issued, issuedNames, rejected,
                 uniforms, stored, drawCalls>>

(* glClearColor, glClear *)
Clear ==
  /\ pc = "clear"
  /\ Step("glClear")
  /\ pc' = "bind_texture"
  /\ UNCHANGED <<window, glad, output, terminateCalls, exitCode, created,
                 releases, data, texImage, boundTexture, boundVAO,
                 activeProgram, shouldClose, escapeKey, fbSize, viewport,
                 clock, frame, locals, issued, issuedNames, rejected,
                 uniforms, stored, drawCalls>>

(* glBindTexture(GL_TEXTURE_2D, texture) *)
BindTexture ==
  /\ pc = "bind_texture"
  /\ boundTexture' = "texture"
  /\ Step("glBindTexture")
  /\ pc' = "matrices"
  /\ UNCHANGED <<window, glad, output, terminateCalls, exitCode, created,
                 releases, data, texImage, boundVAO, activeProgram,
                 shouldClose, escapeKey, fbSize, viewport, clock, frame,
                 locals, issued, issuedNames, rejected, uniforms, stored,
                 drawCalls>>

(* bug variant: the model matrix is rotated by the elapsed time *)
Matrices_ModelSpins(t) ==
  LET aspect == FDiv(Fixed(800), Fixed(600)) IN
  [trans      |-> rotate(Identity, radians(t * 5), <<0, 0, 1>>),
   model      |-> rotate(Identity, radians(t * 5), <<1, 0, 0>>),
   view       |-> translate(Identity, <<0, 0, 0 - 3>>),
   projection |-> perspective(radians(45), aspect, 100, Fixed(100)),
   aspect     |-> aspect,
   time       |-> t]

(* bug variant: the spin runs at 100 degrees per second *)
Matrices_SpinDoubleSpeed(t) ==
  LET aspect == FDiv(Fixed(800), Fixed(600)) IN
  [trans      |-> rotate(Identity, radians(t * 10), <<0, 0, 1>>),
   model      |-> rotate(Identity, radians(0 - 55), <<1, 0, 0>>),
   view       |-> translate(Identity, <<0, 0, 0 - 3>>),
   projection |-> perspective(radians(45), aspect, 100, Fixed(100)),
   aspect     |-> aspect,
   time       |-> t]

(* trans, model, view, projection; t is what glfwGetTime returns *)
Matrices(t) ==
  LET aspect == FDiv(Fixed(800), Fixed(600)) IN
  [trans      |-> rotate(Identity, radians(t * 5), <<0, 0, 1>>),
   model      |-> rotate(Identity, radians(0 - 55), <<1, 0, 0>>),
   view       |-> translate(Identity, <<0, 0, 0 - 3>>),
   projection |-> perspective(radians(45), aspect, 100, Fixed(100)),
   aspect     |-> aspect,
   time       |-> t]

ComputeMatrices ==
  /\ pc = "matrices"
  /\ \E t \in ClockValues :
       /\ t >= clock
       /\ clock' = t
       /\ locals' = Matrices(t)
  /\ Step("matrices")
  /\ pc' = "upload_mvp"
  /\ UNCHANGED <<window, glad, output, terminateCalls, exitCode, created,
                 releases, data, texImage, boundTexture, boundVAO,
                 activeProgram, shouldClose, escapeKey, fbSize, viewport,
                 frame, issued, issuedNames, rejected, uniforms, stored,
                 drawCalls>>

(* glUniform* on the given names: the values reach the program that is    *)
(* in use; with no program in use the call is an error and stores nothing *)
UploadUniforms(names, values) ==
  /\ issued' = [n \in DOMAIN issued |->
                  IF n \in names THEN values[n] ELSE issued[n]]
  /\ issuedNames' = issuedNames \cup names
  /\ IF activeProgram = "program"
       THEN /\ uniforms' = [n \in DOMAIN uniforms |->
                              IF n \in names THEN values[n] ELSE uniforms[n]]
            /\ stored' = stored \cup names
            /\ UNCHANGED rejected
       ELSE /\ rejected' = rejected \cup names
            /\ UNCHANGED <<uniforms, stored>>

(* glGetUniformLocation x3, glUniformMatrix4fv x3 (model, view, projection) *)
UploadMVP ==
  /\ pc = "upload_mvp"
  /\ UploadUniforms({"model", "view", "projection"},
                    [model |-> locals.model, view |-> locals.view,
                     projection |-> locals.projection])
  /\ steps' = steps \o <<"uniform model", "uniform view",
                         "uniform projection">>
  /\ pc' = "use"
  /\ UNCHANGED <<window, glad, output, terminateCalls, exitCode, created,
                 releases, data, texImage, boundTexture, boundVAO,
                 activeProgram, shouldClose, escapeKey, fbSize, viewport,
                 clock, frame, locals, drawCalls>>

(* ourShader.use() *)
UseShader ==
  /\ pc = "use"
  /\ activeProgram' = "program"
  /\ Step("use")
  /\ pc' = "upload_transform"
  /\ UNCHANGED <<window, glad, output, terminateCalls, exitCode, created,
                 releases, data, texImage, boundTexture, boundVAO,
                 shouldClose, escapeKey, fbSize, viewport, clock, frame,
                 locals, issued, issuedNames, rejected, uniforms, stored,
                 drawCalls>>

(* bug variant: the time uniform is not refreshed from the clock *)
UploadTransformTime_StaleTime ==
  /\ pc = "upload_transform"
  /\ \E t \in ClockValues :
       /\ t >= clock
       /\ clock' = t
       /\ UploadUniforms({"transform", "time"},
                         [transform |-> locals.trans, time |-> issued.time])
  /\ steps' = steps \o <<"uniform transform", "uniform time">>
  /\ pc' = "draw"
  /\ UNCHANGED <<window, glad, output, terminateCalls, exitCode, created,
                 releases, data, texImage, boundTexture, boundVAO,
                 activeProgram, shouldClose, escapeKey, fbSize, viewport,
                 frame, locals, drawCalls>>

(* glUniformMatrix4fv(transformLoc, trans); glUniform1f(uniformTime,      *)
(* glfwGetTime())                                                          *)
UploadTransformTime ==
  /\ pc = "upload_transform"
  /\ \E t \in ClockValues :
       /\ t >= clock
       /\ clock' = t
       /\ UploadUniforms({"transform", "time"},
                         [transform |-> locals.trans, time |-> t])
  /\ steps' = steps \o <<"uniform transform", "uniform time">>
  /\ pc' = "draw"
  /\ UNCHANGED <<window, glad, output, terminateCalls, exitCode, created,
                 releases, data, texImage, boundTexture, boundVAO,
                 activeProgram, shouldClose, escapeKey, fbSize, viewport,
                 frame, locals, drawCalls>>

(* glBindVertexArray(VAO); glDrawElements(GL_TRIANGLES, 6, ...) *)
Draw ==
  /\ pc = "draw"
  /\ boundVAO' = "VAO"
  /\ drawCalls' = drawCalls + 1
  /\ steps' = steps \o <<"glBindVertexArray", "glDrawElements">>
  /\ pc' = "present"
  /\ UNCHANGED <<window, glad, output, terminateCalls, exitCode, created,
                 releases, data, texImage, boundTexture, activeProgram,
                 shouldClose, escapeKey, fbSize, viewport, clock, frame,
                 locals, issued, issuedNames, rejected, uniforms, stored>>

(* glfwSwapBuffers(window) *)
SwapBuffers ==
  /\ pc = "present"
  /\ Step("glfwSwapBuffers")
  /\ pc' = "poll"
  /\ UNCHANGED <<window, glad, output, terminateCalls, exitCode, created,
                 releases, data, texImage, boundTexture, boundVAO,
                 activeProgram, shouldClose, escapeKey, fbSize, viewport,
                 clock, frame, locals, issued, issuedNames, rejected,
                 uniforms, stored, drawCalls>>

(* bug variant: width and height are passed in the wrong order *)
framebuffer_size_callback_Swapped(width, height) == <<0, 0, height, width>>

(* framebuffer_size_callback(window, width, height): the new viewport *)
framebuffer_size_callback(width, height) == <<0, 0, width, height>>

(* glfwPollEvents(): the host delivers what happened since the last poll: *)
(* the key's state, a close request, a new framebuffer size (which runs   *)
(* the resize callback)                                                    *)
PollEvents ==
  /\ pc = "poll"
  /\ \E key \in {"RELEASE", "PRESS"}, close \in BOOLEAN, size \in Sizes :
       /\ escapeKey' = key
       /\ shouldClose' = (shouldClose \/ close)
       /\ fbSize' = size
       /\ viewport' = IF size # fbSize
                        THEN framebuffer_size_callback(size[1], size[2])
                        ELSE viewport
  /\ Step("glfwPollEvents")
  /\ pc' = "loop"
  /\ UNCHANGED <<window, glad, output, terminateCalls, exitCode, created,
                 releases, data, texImage, boundTexture, boundVAO,
                 activeProgram, clock, frame, locals, issued, issuedNames,
                 rejected, uniforms, stored, drawCalls>>

(* ----------------------------- shutdown -------------------------------- *)
(* glDeleteVertexArrays(1, &VAO); glDeleteBuffers(1, &VBO);               *)
(* glDeleteBuffers(1, &EBO)                                                *)
Cleanup ==
  /\ pc = "cleanup"
  /\ releases' = [r \in Resources |->
                    IF r \in {"VAO", "VBO", "EBO"}
                      THEN releases[r] + 1 ELSE releases[r]]
  /\ pc' = "terminate"
  /\ UNCHANGED <<window, glad, output, terminateCalls, exitCode, created,
                 data, texImage, boundTexture, boundVAO, activeProgram,
                 shouldClose, escapeKey, fbSize, viewport, clock, frame,
                 steps, locals, issued, issuedNames, rejected, uniforms,
                 stored, drawCalls>>

(* glfwTerminate(); return 0 *)
Terminate ==
  /\ pc = "terminate"
  /\ terminateCalls' = terminateCalls + 1
  /\ exitCode' = <<0>>
  /\ pc' = "exited"
  /\ UNCHANGED <<window, glad, output, created, releases, data, texImage,
                 boundTexture, boundVAO, activeProgram, shouldClose,
                 escapeKey, fbSize, viewport, clock, frame, steps, locals,
                 issued, issuedNames, rejected, uniforms, stored, drawCalls>>

Next ==
  \/ CreateWindow \/ WindowFailed \/ MakeContextCurrent \/ LoadGL
  \/ GladFailed \/ BuildShader \/ SetupGeometry \/ LoadTexture
  \/ UploadTexture \/ TextureFailed \/ EnterTick \/ LeaveLoop
  \/ processInput \/ Clear \/ BindTexture \/ ComputeMatrices \/ UploadMVP
  \/ UseShader \/ UploadTransformTime \/ Draw \/ SwapBuffers \/ PollEvents
  \/ Cleanup \/ Terminate

Spec == Init /\ [][Next]_vars

(* ------------------------------ claims --------------------------------- *)
FailureExit == pc = "exited" /\ exitCode = <<0 - 1>>
NormalExit == pc = "exited" /\ exitCode = <<0>>
InitFailed == window = "NULL" \/ glad = "failed"

LoopBody == {"input", "clear", "bind_texture", "matrices", "upload_mvp",
             "use", "upload_transform", "draw", "present", "poll"}
Closing == {"cleanup", "terminate", "exited"}

(* C1: in every frame the aspect ratio given to the perspective           *)
(* projection is (current framebuffer width) / (current framebuffer       *)
(* height).                                                                *)
C1_AspectFollowsFramebuffer ==
  pc = "upload_mvp" =>
    locals.aspect = FDiv(Fixed(fbSize[1]), Fixed(fbSize[2]))

(* C2: main returns 0 exactly when the loop was entered and left through  *)
(* the close signal, and -1 exactly when window creation or the GL        *)
(* loader failed; after such a failure the loop is never entered and      *)
(* nothing is drawn.                                                       *)
C2_ExitStatus ==
  /\ (exitCode # <<>>) <=> (pc = "exited")
  /\ pc = "exited" =>
       /\ exitCode \in {<<0>>, <<0 - 1>>}
       /\ (exitCode = <<0>>) <=> (frame >= 1 /\ shouldClose)
       /\ (exitCode = <<0 - 1>>) <=> InitFailed
  /\ InitFailed => frame = 0 /\ drawCalls = 0 /\ pc \notin LoopBody

C2_Witness == NormalExit /\ frame >= 2 /\ drawCalls >= 2

(* C3: on every path by which main returns, glfwTerminate has been called *)
(* exactly once.                                                           *)
C3_TerminateOnEveryExit ==
  /\ terminateCalls <= 1
  /\ pc = "exited" => terminateCalls = 1

(* C4: on the normal shutdown path every GPU object created at start-up   *)
(* (vertex array, both buffers, texture, shader program) has been         *)
(* released exactly once when main returns.                                *)
C4_EveryResourceReleasedOnce ==
  /\ \A r \in Resources : releases[r] <= 1
  /\ NormalExit => \A r \in created : releases[r] = 1

(* C5 as claimed: an initialization failure writes exactly one message,   *)
(* to the standard error stream, and exits.                                *)
C5_OneMessageOnStderr ==
  FailureExit => Len(output) = 1 /\ output[1].stream = "stderr"

(* C5 as amended: an initialization failure writes exactly one message,   *)
(* to the standard output stream, and main returns in the same step: the  *)
(* failed call is not made again.                                          *)
C5_OneMessageOnStdout ==
  /\ [](FailureExit =>
          /\ Len(output) = 1
          /\ output[1].stream = "stdout"
          /\ output[1].text = IF window = "NULL"
                                THEN "Failed to create GLFW window"
                                ELSE "Failed to initialize GLAD")
  /\ [][(pc \in {"window_check", "glad_check"} /\ InitFailed) =>
          (pc' = "exited" /\ Len(output') = Len(output) + 1)]_vars

C5_Witness == FailureExit /\ window = "NULL" /\ Len(output) = 1

(* C6: when stbi_load returns NULL the program writes one message, skips  *)
(* glTexImage2D and glGenerateMipmap, and the loop runs as usual: every   *)
(* iteration has issued its draw call by the time it presents, and main   *)
(* returns 0.                                                              *)
C6_TextureFailureTolerated ==
  (data = "NULL" /\ pc # "data_check") =>
    /\ Len(output) = 1
    /\ output[1].text = "Failed to load texture"
    /\ ~texImage
    /\ pc \in LoopBody \cup {"loop"} \cup Closing
    /\ pc \in {"present", "poll", "loop"} \cup Closing => drawCalls = frame
    /\ pc = "exited" => exitCode = <<0>>

C6_Witness == data = "NULL" /\ NormalExit /\ drawCalls >= 2

(* C7: every uniform upload is issued while the shader program is in use, *)
(* so no draw call is issued before model, view and projection have       *)
(* reached the program.                                                    *)
C7_UploadsWhileProgramInUse ==
  /\ rejected = {}
  /\ pc = "present" => {"model", "view", "projection"} \subseteq stored

(* The calls of one loop iteration, in the order main() makes them. *)
TickOrder ==
  <<"processInput", "glClear", "glBindTexture", "matrices",
    "uniform model", "uniform view", "uniform projection", "use",
    "uniform transform", "uniform time", "glBindVertexArray",
    "glDrawElements", "glfwSwapBuffers", "glfwPollEvents">>

IsPrefix(a, b) == Len(a) <= Len(b) /\ a = SubSeq(b, 1, Len(a))

(* Place of a call in the order the claim gives: input, clear, matrices,  *)
(* uniform uploads, texture and vertex array binds, draw, present.        *)
ClaimedRank(call) ==
  CASE call = "processInput" -> 1
    [] call = "glClear" -> 2
    [] call = "matrices" -> 3
    [] call \in {"uniform model", "uniform view", "uniform projection",
                 "uniform transform", "uniform time"} -> 4
    [] call \in {"glBindTexture", "glBindVertexArray"} -> 5
    [] call = "glDrawElements" -> 6
    [] call = "glfwSwapBuffers" -> 7
    [] OTHER -> 0

Ranked(i) == ClaimedRank(steps[i]) # 0

(* C8 as claimed: each iteration makes its calls once each in the order   *)
(* input, clear, matrices, uniform uploads, bind texture and vertex       *)
(* array, draw, present.                                                   *)
C8_ClaimedOrder ==
  \A i, j \in DOMAIN steps :
    (i < j /\ Ranked(i) /\ Ranked(j)) =>
      /\ steps[i] # steps[j]
      /\ ClaimedRank(steps[i]) <= ClaimedRank(steps[j])

(* C8 as amended: each iteration makes its calls once each in the order   *)
(* input, clear, bind texture, matrices, uniform uploads, bind vertex     *)
(* array, draw, present; the next iteration starts only after the         *)
(* present (and the event poll) of this one.                              *)
C8_TickOrder ==
  /\ IsPrefix(steps, TickOrder)
  /\ (pc = "loop" /\ frame >= 1) => steps = TickOrder
  /\ pc = "input" => steps = <<>>
  /\ pc \in {"poll", "loop"} \cup Closing => drawCalls = frame

C8_Witness == pc = "loop" /\ frame >= 2 /\ steps = TickOrder

(* C9: once the should-close flag is set it is never cleared, no further  *)
(* iteration begins, and once the loop is left it is never re-entered.    *)
C9_ClosingIsTerminal ==
  [][/\ shouldClose => (shouldClose' /\ frame' = frame)
     /\ (shouldClose /\ pc = "loop") => pc' = "cleanup"
     /\ pc \in Closing => pc' \in Closing]_vars

C9_Witness ==
  pc = "exited" /\ shouldClose /\ escapeKey = "PRESS" /\ frame >= 2

(* C10: the model and view matrices passed to glUniformMatrix4fv are the  *)
(* same in every frame, whatever the clock reads and whatever the         *)
(* framebuffer size is: model is identity rotated -55 degrees about X,    *)
(* view is identity translated by (0, 0, -3).                             *)
C10_ModelViewConstant ==
  /\ []("model" \in issuedNames =>
          /\ issued.model = rotate(Identity, 0 - 55, <<1, 0, 0>>)
          /\ issued.view = translate(Identity, <<0, 0, 0 - 3>>))
  /\ [][pc = "upload_mvp" /\ "model" \in issuedNames =>
          (issued'.model = issued.model /\ issued'.view = issued.view)]_vars

C10_Witness ==
  /\ pc = "use"
  /\ frame >= 2
  /\ clock > 0
  /\ fbSize # <<SCR_WIDTH, SCR_HEIGHT>>
  /\ issued.model = locals.model

(* Positions of an iteration after the transform and time uploads. *)
AfterUploads == {"draw", "present", "poll"}

(* Rotation by deg degrees about Z applied to identity, written out. *)
ZRotation(deg) ==
  <<<<CosDeg(deg), SinDeg(deg), 0, 0>>,
    <<0 - SinDeg(deg), CosDeg(deg), 0, 0>>,
    <<0, 0, Fixed(1), 0>>,
    <<0, 0, 0, Fixed(1)>>>>

HalfTurnZ ==
  <<<<0 - Fixed(1), 0, 0, 0>>,
    <<0, 0 - Fixed(1), 0, 0>>,
    <<0, 0, Fixed(1), 0>>,
    <<0, 0, 0, Fixed(1)>>>>

(* C11: the matrix uploaded to the transform uniform is the rotation      *)
(* about Z, applied to identity, by (t x 50) degrees, t the clock reading *)
(* taken for it in that frame (t counts tenths of a second here, so the   *)
(* angle is t x 5); the angle may be taken mod 360; at t = 0 the matrix   *)
(* is the identity and at t = 3.6 s it is a half turn about Z.            *)
C11_SpinIsZRotation ==
  pc \in AfterUploads =>
    /\ issued.transform = ZRotation((locals.time * 5) % 360)
    /\ uniforms.transform = issued.transform
    /\ locals.time = 0 => issued.transform = Identity
    /\ locals.time = 36 => issued.transform = HalfTurnZ

C11_Witness ==
  /\ pc = "draw"
  /\ locals.time = 36
  /\ issued.transform = HalfTurnZ
  /\ "transform" \in stored

(* C12: within one frame the clock is read twice, once for the spin angle *)
(* and once for the time uniform; the value uploaded to time is never     *)
(* smaller than the reading the spin matrix of that frame was built from, *)
(* and it can be larger.                                                   *)
C12_TimeNotBeforeSpin ==
  /\ [](pc \in AfterUploads =>
          /\ issued.time >= locals.time
          /\ uniforms.time = issued.time
          /\ issued.transform = locals.trans)
  /\ [][pc = "upload_transform" =>
          (issued'.time = clock' /\ clock' >= locals.time)]_vars

(* a frame whose two readings differ *)
C12_Witness ==
  /\ pc = "draw"
  /\ issued.time > locals.time
  /\ issued.transform = ZRotation((locals.time * 5) % 360)
  /\ issued.transform # ZRotation((issued.time * 5) % 360)

(* C13: the iteration in which processInput sees the escape key pressed   *)
(* runs to its end: it still clears, uploads, draws once and presents,    *)
(* and the loop is left only at the next test of its condition; exactly   *)
(* one draw call follows the observation.  (The flag being set inside an  *)
(* iteration means processInput set it in this iteration: the iteration   *)
(* was entered with the flag clear and the event poll ends it.)           *)
C13_ExitTickRunsToEnd ==
  /\ [][(pc = "input" /\ shouldClose') =>
          (pc' = "clear" /\ drawCalls' = frame - 1)]_vars
  /\ [][(shouldClose /\ pc \in LoopBody) =>
          /\ pc' \in LoopBody \cup {"loop"}
          /\ frame' = frame
          /\ IsPrefix(steps', TickOrder) /\ Len(steps') > Len(steps)
          /\ pc' = "loop" => (steps' = TickOrder /\ drawCalls' = frame)]_vars
  /\ [][(shouldClose /\ pc \in {"loop"} \cup Closing) =>
          (pc' \in Closing /\ drawCalls' = drawCalls /\ frame' = frame)]_vars

C13_Witness ==
  /\ pc = "present"
  /\ shouldClose
  /\ escapeKey = "PRESS"
  /\ frame >= 2
  /\ drawCalls = frame

(* C14: the resize callback runs only inside glfwPollEvents, at the end   *)
(* of an iteration; the viewport does not change between the clear and    *)
(* the present of an iteration, and after a callback with (w, h) it is    *)
(* (0, 0, w, h) throughout the next iteration.                            *)
C14_ViewportStableWithinTick ==
  /\ [][pc # "poll" /\ pc # "window_check" => viewport' = viewport]_vars
  /\ [][(pc = "poll" /\ fbSize' # fbSize) =>
          viewport' = <<0, 0, fbSize'[1], fbSize'[2]>>]_vars
  /\ [](pc \in LoopBody \cup {"loop"} =>
          viewport = <<0, 0, fbSize[1], fbSize[2]>>)

C14_Witness ==
  /\ pc = "present"
  /\ frame >= 2
  /\ fbSize = <<400, 800>>
  /\ viewport = <<0, 0, 400, 800>>

====
